---- MODULE Spec2Model ----
(***************************************************************************)
(* SafeChat relay server (server/src/index.js): the room table, the        *)
(* per-connection currentRoomId, the Socket.IO adapter rooms the handlers   *)
(* address their emits through, and one action per event handler.          *)
(* SafeChat client (client/src): the SecureCrypto class of lib/crypto.ts     *)
(* with tweetnacl in miniature, and the message listener and send handler  *)
(* of the room page.                                                       *)
(***************************************************************************)
EXTENDS Integers, Sequences, FiniteSets, TLC

\* ---------------------------------------------------------------- bounds
NumSockets == 3        \* connections the server accepts during a run
NumLifecycleSockets == 2 \* the same, in the runs that move the clock
NumPlainRooms == 1     \* client-chosen room ids that are no socket id
NumCollidingIds == 1   \* client-chosen room ids that equal a socket id
NumMemberIds == 2      \* distinct values nanoid(8) may return
NumKeys == 1           \* distinct public keys clients present
MaxNow == 48           \* the clock stops here (hours)
NumSecretKeys == 4     \* distinct key pairs nacl.box.keyPair() may return
NumNonces == 1         \* distinct nonces nacl.randomBytes may return
MaxDerivations == 2    \* the derivation count is kept up to here
MaxFeed == 3           \* entries the message feed holds at most
MaxElapsed == 12       \* seconds followed after a joinRoom call

\* ------------------------------------------------------------- constants
MAX_AGE == 24          \* retention window of the sweeper, in hours
TickHours == 24        \* granularity of the clock, in hours
JoinTimeout == 10      \* seconds joinRoom waits for room-joined

\* ----------------------------------------------------------------- values
\* The falsy value: null, undefined or the empty string.
Null == ""

\* Socket ids are assigned by the server, one per connection: s1 names the
\* first connection accepted, s2 the second, and so on.
SocketId(i) == "s" \o ToString(i)
SocketIds == {SocketId(i) : i \in 1..NumSockets}
PlainRoomIds == {"r" \o ToString(i) : i \in 1..NumPlainRooms}
CollidingRoomIds == {"s" \o ToString(i) : i \in 1..NumCollidingIds}
RoomIds == PlainRoomIds \cup CollidingRoomIds
\* Names of adapter rooms: Socket.IO keys them by string, socket ids and
\* room ids alike.
AdapterRooms == SocketIds \cup RoomIds
MemberIds == {"m" \o ToString(i) : i \in 1..NumMemberIds}
PublicKeys == {"k" \o ToString(i) : i \in 1..NumKeys}
UserNames == {"alice"}

VARIABLES
    connected,      \* socket id -> "new" | "open" | "closed"
    rooms,          \* the rooms Map: room id -> [users, createdAt]
    currentRoomId,  \* the closure variable of each connection
    adapter,        \* Socket.IO adapter: room name -> set of socket ids
    now,            \* wall clock, hours
    last,           \* the handler that ran last, with its inputs
    out             \* the emit calls of that handler, in order

\* The client (client/src): one SecureCrypto per session, and the room page
\* of one browser tab.
VARIABLES
    crypto,         \* session -> the fields of its SecureCrypto instance
    call,           \* the SecureCrypto method that ran last, with its result
    page,           \* the room page: store, join snapshot, chatSend emits
    promise,        \* the promise joinRoom returned, and its timer
    net             \* events in flight from the server to this client

server == <<connected, rooms, currentRoomId, adapter, now, last, out>>
client == <<crypto, call, page, promise, net>>
vars == <<connected, rooms, currentRoomId, adapter, now, last, out,
          crypto, call, page, promise, net>>

\* ------------------------------------------------------------- room.users
\* A JavaScript Map keeps insertion order: a sequence of entries, one per
\* socket id.
RECURSIVE IndexOfSid(_, _, _)
IndexOfSid(users, sid, i) ==
    IF i > Len(users) THEN 0
    ELSE IF users[i].sid = sid THEN i
    ELSE IndexOfSid(users, sid, i + 1)

UsersHas(users, sid) == IndexOfSid(users, sid, 1) # 0

UsersGet(users, sid) == users[IndexOfSid(users, sid, 1)]

UsersSet(users, entry) ==
    LET i == IndexOfSid(users, entry.sid, 1)
    IN IF i = 0 THEN Append(users, entry)
       ELSE [users EXCEPT ![i] = entry]

\* Variant: the entry of a leaving socket stays in the map.
UsersDeleteNone(users, sid) == users

UsersDelete(users, sid) ==
    SelectSeq(users, LAMBDA u : u.sid # sid)

\* Variant: a miss falls back to the first entry.
FindSocketOrFirst(users, id, i) ==
    IF Len(users) = 0 THEN Null ELSE users[1].sid

\* Array.from(room.users.entries()).find(([_, user]) => user.id === id)?.[0]
RECURSIVE FindSocketOf(_, _, _)
FindSocketOf(users, id, i) ==
    IF i > Len(users) THEN Null
    ELSE IF users[i].id = id THEN users[i].sid
    ELSE FindSocketOf(users, id, i + 1)

\* Array.from(room.users.values()).map(u => ({id, publicKey, userName}))
ExistingUsers(users) ==
    [i \in 1..Len(users) |->
        [id |-> users[i].id, publicKey |-> users[i].publicKey,
         userName |-> users[i].userName]]

MemberSids(users) == {users[i].sid : i \in 1..Len(users)}

\* `User${n}`
DefaultName(n) == "User" \o ToString(n)

\* ------------------------------------------------------- Socket.IO emits
\* socket.emit(ev, data): to the socket itself, not through the adapter.
SocketEmit(sid, ev, data) ==
    [ev |-> ev, to |-> {sid}, data |-> data]

\* socket.to(room).emit(ev, data): every socket in the adapter room `room`
\* except the sockets in the adapter room named by the sender's id.
SocketToEmit(a, sid, room, ev, data) ==
    [ev |-> ev, to |-> a[room] \ a[sid], data |-> data]

\* io.to(room).emit(ev, data): every socket in the adapter room `room`.
IoToEmit(a, room, ev, data) ==
    [ev |-> ev, to |-> a[room], data |-> data]

\* socket.join(room) / socket.leave(room)
SocketJoin(a, sid, room) == [a EXCEPT ![room] = @ \cup {sid}]
SocketLeave(a, sid, room) == [a EXCEPT ![room] = @ \ {sid}]

NoData == [id |-> Null, publicKey |-> Null, userName |-> Null,
           roomId |-> Null, users |-> <<>>, payload |-> Null]

\* ------------------------------------------------------------------ rooms
\* rooms.has(roomId) is the `exists` field; an absent entry is NoRoom.
NoRoom == [exists |-> FALSE, users |-> <<>>, createdAt |-> 0]

RoomsHas(rs, roomId) == roomId \in DOMAIN rs /\ rs[roomId].exists
\* ------------------------------------------------------------- leaveRoom
\* Variant: the empty room is kept.
LeaveRoomKeeps(users) == FALSE

\* if (room.users.size === 0) rooms.delete(roomId)
LeaveRoomDeletes(users) == Len(users) = 0

\* st = [rooms, adapter, out]; the result is st after leaveRoom.
leaveRoom(st, sid, roomId) ==
    IF ~RoomsHas(st.rooms, roomId) THEN st
    ELSE LET room == st.rooms[roomId] IN
    IF ~UsersHas(room.users, sid) THEN st
    ELSE
      LET user == UsersGet(room.users, sid)
          users2 == UsersDelete(room.users, sid)
          a2 == SocketLeave(st.adapter, sid, roomId)
          ev == SocketToEmit(a2, sid, roomId, "user-left",
                    [NoData EXCEPT !.id = user.id, !.userName = user.userName])
          empty == LeaveRoomDeletes(users2)
      IN [rooms |-> IF empty
                    THEN [st.rooms EXCEPT ![roomId] = NoRoom]
                    ELSE [st.rooms EXCEPT ![roomId].users = users2],
          adapter |-> a2,
          out |-> Append(st.out, ev)]

St == [rooms |-> rooms, adapter |-> adapter, out |-> <<>>]

NoLast == [op |-> "none", sid |-> Null, roomId |-> Null, publicKey |-> Null,
           userName |-> Null, userId |-> Null, to |-> Null, was |-> Null]

\* ------------------------------------------------------------------ Init
ServerInit ==
    /\ connected = [s \in SocketIds |-> "new"]
    /\ rooms = [r \in RoomIds |-> NoRoom]
    /\ currentRoomId = [s \in SocketIds |-> Null]
    /\ adapter = [r \in AdapterRooms |-> {}]
    /\ now = 0
    /\ last = NoLast
    /\ out = <<>>

\* No page is open: cryptoInstance is null and the store is empty.
ClientIdle ==
    /\ crypto = <<>>
    /\ call = <<>>
    /\ page = <<>>
    /\ promise = <<>>
    /\ net = <<>>

Init == ServerInit /\ ClientIdle

\* io.on('connection'): the socket is in the adapter room of its own id.
Connection(i) ==
    LET sid == SocketId(i) IN
    /\ connected[sid] = "new"
    /\ i > 1 => connected[SocketId(i - 1)] # "new"
    /\ connected' = [connected EXCEPT ![sid] = "open"]
    /\ currentRoomId' = [currentRoomId EXCEPT ![sid] = Null]
    /\ adapter' = SocketJoin(adapter, sid, sid)
    /\ UNCHANGED client
    /\ last' = [NoLast EXCEPT !.op = "connection", !.sid = sid]
    /\ out' = <<>>
    /\ UNCHANGED <<rooms, now>>
\* ------------------------------------------------------------- join-room
\* Variant: only the roomId is validated.
JoinRejectedRoomOnly(roomId, publicKey) == roomId = Null

\* if (!roomId || !publicKey)
JoinRejected(roomId, publicKey) == roomId = Null \/ publicKey = Null

\* Variant: the previous room is never left.
JoinKeepsPrevious(cur) == FALSE

\* Leave previous room if any: if (currentRoomId)
JoinLeavesPrevious(cur) == cur # Null

\* userName || `User${n}`
NameOr(userName, n) == IF userName # Null THEN userName ELSE DefaultName(n)

\* userName || `User${room.users.size + 1}`, read before the joiner is added
StoredName(userName, size) == NameOr(userName, size + 1)

\* Variant: the announcement counts as the record does, after the insert.
AnnouncedNameRecounted(userName, size) == NameOr(userName, size + 1)

\* userName || `User${room.users.size}`, read after the joiner is added
AnnouncedName(userName, size) == NameOr(userName, size)
\* Variant: the joiner's own entry is filtered out of the response.
JoinedUsersOthers(users, sid) == ExistingUsers(UsersDelete(users, sid))

\* The users array of the room-joined response.
JoinedUsers(users, sid) == ExistingUsers(users)

JoinRoom(sid, roomId, publicKey, userName, userId) ==
    /\ connected[sid] = "open"
    /\ UNCHANGED client
    /\ last' = [NoLast EXCEPT !.op = "join-room", !.sid = sid,
                   !.roomId = roomId, !.publicKey = publicKey,
                   !.userName = userName, !.userId = userId,
                   !.was = currentRoomId[sid]]
    /\ IF JoinRejected(roomId, publicKey)
       THEN /\ out' = <<SocketEmit(sid, "error",
                    [NoData EXCEPT !.payload = "Missing roomId or publicKey"])>>
            /\ UNCHANGED <<connected, rooms, currentRoomId, adapter, now>>
       ELSE
         LET st1 == IF JoinLeavesPrevious(currentRoomId[sid])
                    THEN leaveRoom(St, sid, currentRoomId[sid])
                    ELSE St
             rooms2 == IF ~RoomsHas(st1.rooms, roomId)
                       THEN [st1.rooms EXCEPT ![roomId] =
                               [exists |-> TRUE, users |-> <<>>,
                                createdAt |-> now]]
                       ELSE st1.rooms
             users2 == rooms2[roomId].users
             users3 == UsersSet(users2,
                          [sid |-> sid, id |-> userId, publicKey |-> publicKey,
                           userName |-> StoredName(userName, Len(users2))])
             a3 == SocketJoin(st1.adapter, sid, roomId)
             joined == SocketEmit(sid, "room-joined",
                          [NoData EXCEPT !.roomId = roomId, !.id = userId,
                                         !.users = JoinedUsers(users3, sid)])
             notify == SocketToEmit(a3, sid, roomId, "user-joined",
                          [NoData EXCEPT !.id = userId, !.publicKey = publicKey,
                               !.userName = AnnouncedName(userName, Len(users3))])
         IN /\ rooms' = [rooms2 EXCEPT ![roomId].users = users3]
            /\ adapter' = a3
            /\ currentRoomId' = [currentRoomId EXCEPT ![sid] = roomId]
            /\ out' = st1.out \o <<joined, notify>>
            /\ UNCHANGED <<connected, now>>

\* ------------------------------------------------------------ leave-room
\* Variant: the handler leaves the room but keeps currentRoomId.
LeaveRoomKeepsCurrent(sid) ==
    /\ connected[sid] = "open"
    /\ UNCHANGED client
    /\ last' = [NoLast EXCEPT !.op = "leave-room", !.sid = sid,
                   !.was = currentRoomId[sid]]
    /\ IF currentRoomId[sid] # Null
       THEN LET st1 == leaveRoom(St, sid, currentRoomId[sid])
            IN /\ rooms' = st1.rooms
               /\ adapter' = st1.adapter
               /\ out' = st1.out
       ELSE /\ out' = <<>>
            /\ UNCHANGED <<rooms, adapter>>
    /\ UNCHANGED <<connected, currentRoomId, now>>

LeaveRoom(sid) ==
    /\ connected[sid] = "open"
    /\ UNCHANGED client
    /\ last' = [NoLast EXCEPT !.op = "leave-room", !.sid = sid,
                   !.was = currentRoomId[sid]]
    /\ IF currentRoomId[sid] # Null
       THEN LET st1 == leaveRoom(St, sid, currentRoomId[sid])
            IN /\ rooms' = st1.rooms
               /\ adapter' = st1.adapter
               /\ out' = st1.out
               /\ currentRoomId' = [currentRoomId EXCEPT ![sid] = Null]
       ELSE /\ out' = <<>>
            /\ UNCHANGED <<rooms, adapter, currentRoomId>>
    /\ UNCHANGED <<connected, now>>

\* ------------------------------------------------------------ disconnect
\* Socket.IO takes the socket out of every adapter room before it fires
\* 'disconnect'.
SocketCleanup(a, sid) == [r \in DOMAIN a |-> a[r] \ {sid}]

Disconnect(sid) ==
    /\ connected[sid] = "open"
    /\ connected' = [connected EXCEPT ![sid] = "closed"]
    /\ UNCHANGED client
    /\ last' = [NoLast EXCEPT !.op = "disconnect", !.sid = sid,
                   !.was = currentRoomId[sid]]
    /\ LET st0 == [St EXCEPT !.adapter = SocketCleanup(adapter, sid)]
           st1 == IF currentRoomId[sid] # Null
                  THEN leaveRoom(st0, sid, currentRoomId[sid])
                  ELSE st0
       IN /\ rooms' = st1.rooms
          /\ adapter' = st1.adapter
          /\ out' = st1.out
    /\ UNCHANGED <<currentRoomId, now>>
\* ---------------------------------------------------------- send-message
\* Variant: the handler returns silently, as typing and the call handlers do.
SendRejectedNever(cur) == FALSE

\* if (!currentRoomId) { socket.emit('error', ...); return; }
SendRejected(cur) == cur = Null

\* Variant: the sender id is read from the client's payload.
MessageFromPayload(sender, encrypted) == encrypted

\* id: sender.id, the value stored under the socket at its join
MessageFrom(sender, encrypted) == sender.id

\* The emit of the recipientId branch.
DirectMessage(a, users, recipientId, data) ==
    LET recipientSocket == FindSocketOf(users, recipientId, 1)
    IN IF recipientSocket # Null
       THEN <<IoToEmit(a, recipientSocket, "message", data)>>
       ELSE <<>>

\* The emit of the broadcast branch.
BroadcastMessage(a, sid, cur, data) ==
    <<SocketToEmit(a, sid, cur, "message", data)>>

SendMessage(sid, encrypted, recipientId) ==
    LET cur == currentRoomId[sid] IN
    /\ connected[sid] = "open"
    /\ UNCHANGED client
    /\ last' = [NoLast EXCEPT !.op = "send-message", !.sid = sid,
                   !.to = recipientId, !.was = cur]
    /\ out' =
         IF SendRejected(cur)
         THEN <<SocketEmit(sid, "error",
                    [NoData EXCEPT !.payload = "Not in a room"])>>
         ELSE IF ~RoomsHas(rooms, cur) THEN <<>>
         ELSE IF ~UsersHas(rooms[cur].users, sid) THEN <<>>
         ELSE LET sender == UsersGet(rooms[cur].users, sid)
                  messageData == [NoData EXCEPT
                                     !.id = MessageFrom(sender, encrypted),
                                     !.userName = sender.userName,
                                     !.payload = encrypted]
              IN IF recipientId # Null
                 THEN DirectMessage(adapter, rooms[cur].users, recipientId,
                                    messageData)
                 ELSE BroadcastMessage(adapter, sid, cur, messageData)
    /\ UNCHANGED <<connected, rooms, currentRoomId, adapter, now>>

\* ---------------------------------------------------------------- typing
Typing(sid, isTyping) ==
    LET cur == currentRoomId[sid] IN
    /\ connected[sid] = "open"
    /\ UNCHANGED client
    /\ last' = [NoLast EXCEPT !.op = "typing", !.sid = sid, !.was = cur]
    /\ out' =
         IF cur = Null THEN <<>>
         ELSE IF ~RoomsHas(rooms, cur) THEN <<>>
         ELSE IF ~UsersHas(rooms[cur].users, sid) THEN <<>>
         ELSE LET user == UsersGet(rooms[cur].users, sid)
              IN <<SocketToEmit(adapter, sid, cur, "typing",
                      [NoData EXCEPT !.id = user.id,
                          !.userName = user.userName, !.payload = isTyping])>>
    /\ UNCHANGED <<connected, rooms, currentRoomId, adapter, now>>

\* ------------------------------------------------------------ call-start
CallStart(sid, type) ==
    LET cur == currentRoomId[sid] IN
    /\ connected[sid] = "open"
    /\ UNCHANGED client
    /\ last' = [NoLast EXCEPT !.op = "call-start", !.sid = sid, !.was = cur]
    /\ out' =
         IF cur = Null THEN <<>>
         ELSE IF ~RoomsHas(rooms, cur) THEN <<>>
         ELSE IF ~UsersHas(rooms[cur].users, sid) THEN <<>>
         ELSE LET caller == UsersGet(rooms[cur].users, sid)
              IN <<SocketToEmit(adapter, sid, cur, "call-incoming",
                      [NoData EXCEPT !.id = caller.id,
                          !.userName = caller.userName, !.payload = type])>>
    /\ UNCHANGED <<connected, rooms, currentRoomId, adapter, now>>

\* ----------------------------------------------------------- call-signal
SignalTo(a, users, to, data) ==
    LET recipientSocket == FindSocketOf(users, to, 1)
    IN IF recipientSocket # Null
       THEN <<IoToEmit(a, recipientSocket, "call-signal", data)>>
       ELSE <<>>

CallSignal(sid, to, signal) ==
    LET cur == currentRoomId[sid] IN
    /\ connected[sid] = "open"
    /\ UNCHANGED client
    /\ last' = [NoLast EXCEPT !.op = "call-signal", !.sid = sid,
                   !.to = to, !.was = cur]
    /\ out' =
         IF cur = Null THEN <<>>
         ELSE IF ~RoomsHas(rooms, cur) THEN <<>>
         ELSE IF ~UsersHas(rooms[cur].users, sid) THEN <<>>
         ELSE LET caller == UsersGet(rooms[cur].users, sid)
              IN SignalTo(adapter, rooms[cur].users, to,
                      [NoData EXCEPT !.id = caller.id, !.payload = signal])
    /\ UNCHANGED <<connected, rooms, currentRoomId, adapter, now>>

\* -------------------------------------------------------------- call-end
\* Variant: ending a call also forgets the current room.
CallEndForgetsRoom(sid) ==
    LET cur == currentRoomId[sid] IN
    /\ connected[sid] = "open"
    /\ UNCHANGED client
    /\ last' = [NoLast EXCEPT !.op = "call-end", !.sid = sid, !.was = cur]
    /\ out' = IF cur = Null THEN <<>>
              ELSE <<SocketToEmit(adapter, sid, cur, "call-ended", NoData)>>
    /\ currentRoomId' = [currentRoomId EXCEPT ![sid] = Null]
    /\ UNCHANGED <<connected, rooms, adapter, now>>

CallEnd(sid) ==
    LET cur == currentRoomId[sid] IN
    /\ connected[sid] = "open"
    /\ UNCHANGED client
    /\ last' = [NoLast EXCEPT !.op = "call-end", !.sid = sid, !.was = cur]
    /\ out' = IF cur = Null THEN <<>>
              ELSE <<SocketToEmit(adapter, sid, cur, "call-ended", NoData)>>
    /\ UNCHANGED <<connected, rooms, currentRoomId, adapter, now>>

\* ----------------------------------------------------- setInterval sweeper
\* Variant: the age test alone decides.
SweeperRemovesOld(room, t) ==
    t - room.createdAt > MAX_AGE

\* now - room.createdAt.getTime() > MAX_AGE && room.users.size === 0
SweeperRemoves(room, t) ==
    t - room.createdAt > MAX_AGE /\ Len(room.users) = 0

Sweeper ==
    /\ rooms' = [r \in DOMAIN rooms |->
                    IF rooms[r].exists /\ SweeperRemoves(rooms[r], now)
                    THEN NoRoom ELSE rooms[r]]
    /\ UNCHANGED client
    /\ last' = [NoLast EXCEPT !.op = "sweeper"]
    /\ out' = <<>>
    /\ UNCHANGED <<connected, currentRoomId, adapter, now>>

\* Time passes between two events.
Tick ==
    /\ now + TickHours <= MaxNow
    /\ now' = now + TickHours
    /\ UNCHANGED client
    /\ last' = [NoLast EXCEPT !.op = "tick"]
    /\ out' = <<>>
    /\ UNCHANGED <<connected, rooms, currentRoomId, adapter>>

\* ================================================== client/src/lib/crypto.ts
\* A string is the sequence of its code points, a Uint8Array the sequence of
\* its bytes, a base64 string the sequence of its sextets with Pad for '='.
Pad == 64

\* What a call that throws returns in place of a value.
Thrown == [threw |-> TRUE, value |-> <<>>]
Returned(v) == [threw |-> FALSE, value |-> v]

\* What a primitive returns: null, or a Uint8Array of any length.
NullBytes == [ok |-> FALSE, bytes |-> <<>>]
SomeBytes(b) == [ok |-> TRUE, bytes |-> b]

\* tweetnacl-util encodeBase64: three bytes to four sextets, '=' fills the
\* last group.
RECURSIVE encodeBase64(_)
encodeBase64(b) ==
    IF Len(b) = 0 THEN <<>>
    ELSE IF Len(b) = 1
    THEN <<b[1] \div 4, (b[1] % 4) * 16, Pad, Pad>>
    ELSE IF Len(b) = 2
    THEN <<b[1] \div 4, (b[1] % 4) * 16 + (b[2] \div 16), (b[2] % 16) * 4, Pad>>
    ELSE <<b[1] \div 4, (b[1] % 4) * 16 + (b[2] \div 16),
           (b[2] % 16) * 4 + (b[3] \div 64), b[3] % 64>>
         \o encodeBase64(SubSeq(b, 4, Len(b)))

\* The strings decodeBase64 accepts: whole groups, '=' in the last one only.
validateBase64(s) ==
    /\ Len(s) % 4 = 0
    /\ \A i \in 1..Len(s) :
          s[i] = Pad => /\ i >= Len(s) - 1
                        /\ s[Len(s)] = Pad

RECURSIVE DecodeGroups(_)
DecodeGroups(s) ==
    IF Len(s) = 0 THEN <<>>
    ELSE LET b1 == s[1] * 4 + (s[2] \div 16)
             b2 == (s[2] % 16) * 16 + (s[3] \div 4)
             b3 == (s[3] % 4) * 64 + s[4]
         IN (IF s[3] = Pad THEN <<b1>>
             ELSE IF s[4] = Pad THEN <<b1, b2>>
             ELSE <<b1, b2, b3>>)
            \o DecodeGroups(SubSeq(s, 5, Len(s)))

\* tweetnacl-util decodeBase64: throws on a string that is no base64.
decodeBase64(s) ==
    IF validateBase64(s) THEN Returned(DecodeGroups(s)) ELSE Thrown

\* tweetnacl-util decodeUTF8: the UTF-8 bytes of a string (code points below
\* 2048: one byte below 128, two bytes from there on).
RECURSIVE decodeUTF8(_)
decodeUTF8(s) ==
    IF Len(s) = 0 THEN <<>>
    ELSE (IF s[1] < 128 THEN <<s[1]>>
          ELSE <<192 + (s[1] \div 64), 128 + (s[1] % 64)>>)
         \o decodeUTF8(Tail(s))

RECURSIVE WellFormedUTF8(_)
WellFormedUTF8(b) ==
    IF Len(b) = 0 THEN TRUE
    ELSE IF b[1] < 128 THEN WellFormedUTF8(Tail(b))
    ELSE /\ b[1] \in 194..223
         /\ Len(b) >= 2
         /\ b[2] \in 128..191
         /\ WellFormedUTF8(SubSeq(b, 3, Len(b)))

RECURSIVE Utf8ToString(_)
Utf8ToString(b) ==
    IF Len(b) = 0 THEN <<>>
    ELSE IF b[1] < 128 THEN <<b[1]>> \o Utf8ToString(Tail(b))
    ELSE <<(b[1] - 192) * 64 + (b[2] - 128)>>
         \o Utf8ToString(SubSeq(b, 3, Len(b)))

\* tweetnacl-util encodeUTF8: the string of UTF-8 bytes; throws on bytes
\* that are no UTF-8.
encodeUTF8(b) ==
    IF WellFormedUTF8(b) THEN Returned(Utf8ToString(b)) ELSE Thrown

\* ------------------------------------------------- tweetnacl, in miniature
\* Keys are two bytes wide. A key pair is a Diffie-Hellman pair modulo 467
\* with base 2; the box is a one-byte authenticator followed by the message
\* shifted by a key stream byte.
RECURSIVE ModExp(_, _, _)
ModExp(b, e, m) == IF e = 0 THEN 1 % m ELSE (b * ModExp(b, e - 1, m)) % m

ToKey(v) == <<v \div 256, v % 256>>
FromKey(k) == k[1] * 256 + k[2]

\* nacl.box.keyPair().publicKey for a secret key.
ScalarMultBase(secretKey) == ToKey(ModExp(2, secretKey, 467))

\* nacl.box.before(publicKey, secretKey): throws on a key of another length.
BoxBefore(publicKey, secretKey) ==
    IF Len(publicKey) # 2 THEN Thrown
    ELSE Returned(ToKey(ModExp(FromKey(publicKey), secretKey, 467)))

RECURSIVE SumBytes(_)
SumBytes(b) == IF Len(b) = 0 THEN 0 ELSE b[1] + SumBytes(Tail(b))

KeyStream(nonce, key) == (SumBytes(key) + SumBytes(nonce)) % 256

Authenticator(c, nonce, key) ==
    (5 * KeyStream(nonce, key) + 7 * SumBytes(c) + Len(c) + 1) % 256

\* nacl.box.after(msg, nonce, key)
BoxAfter(msg, nonce, key) ==
    LET c == [i \in 1..Len(msg) |-> (msg[i] + KeyStream(nonce, key)) % 256]
    IN <<Authenticator(c, nonce, key)>> \o c

\* nacl.box.open.after(box, nonce, key): null when the box does not verify.
BoxOpenAfter(box, nonce, key) ==
    IF Len(box) < 1 THEN NullBytes
    ELSE IF box[1] # Authenticator(Tail(box), nonce, key) THEN NullBytes
    ELSE SomeBytes([i \in 1..(Len(box) - 1) |->
                      (box[i + 1] + 256 - KeyStream(nonce, key)) % 256])

\* ------------------------------------------------------------ SecureCrypto
Sessions == {"A", "B"}
\* The peer of a session.
Other(s) == CHOOSE t \in Sessions : t # s
SecretKeys == 1..NumSecretKeys

\* get publicKey(): encodeBase64(this.keyPair.publicKey)
PublicKeyFor(secretKey) == encodeBase64(ScalarMultBase(secretKey))
PublicKeyOf(c) == PublicKeyFor(c.secretKey)

\* A base64 string that decodes to a key of the wrong length.
ShortKey == encodeBase64(<<1>>)
PeerKeys == {PublicKeyFor(k) : k \in SecretKeys} \cup {ShortKey}

\* The sharedKeys Map, in insertion order: entries [key, value].
RECURSIVE MapIndex(_, _, _)
MapIndex(m, k, i) ==
    IF i > Len(m) THEN 0
    ELSE IF m[i].key = k THEN i
    ELSE MapIndex(m, k, i + 1)

MapHas(m, k) == MapIndex(m, k, 1) # 0
MapGet(m, k) == m[MapIndex(m, k, 1)].value
MapSet(m, k, v) ==
    IF MapHas(m, k)
    THEN [m EXCEPT ![MapIndex(m, k, 1)] = [key |-> k, value |-> v]]
    ELSE Append(m, [key |-> k, value |-> v])

\* constructor(): a fresh key pair and an empty cache. `derived` counts the
\* runs of deriveSharedKey per peer key since the cache was last empty.
NewSecureCrypto(secretKey) ==
    [secretKey |-> secretKey, sharedKeys |-> <<>>,
     derived |-> [k \in PeerKeys |-> 0]]

deriveSharedKey(c, theirPublicKey) ==
    LET theirKey == decodeBase64(theirPublicKey)
    IN IF theirKey.threw THEN Thrown
       ELSE BoxBefore(theirKey.value, c.secretKey)

Counted(c, k) ==
    [c EXCEPT !.derived[k] = IF @ < MaxDerivations THEN @ + 1 ELSE @]

\* Variant: the cache is never consulted.
CacheMissAlways(sharedKeys, k) == TRUE

\* if (!this.sharedKeys.has(publicKey))
CacheMiss(sharedKeys, k) == ~MapHas(sharedKeys, k)

\* getSharedKey: the key, and the instance with its cache as the call
\* leaves it.
getSharedKey(c, k) ==
    IF CacheMiss(c.sharedKeys, k)
    THEN LET d == deriveSharedKey(c, k)
         IN IF d.threw
            THEN [threw |-> TRUE, value |-> <<>>, c |-> Counted(c, k)]
            ELSE [threw |-> FALSE, value |-> d.value,
                  c |-> [Counted(c, k) EXCEPT
                           !.sharedKeys = MapSet(@, k, d.value)]]
    ELSE [threw |-> FALSE, value |-> MapGet(c.sharedKeys, k), c |-> c]

\* Variant: the result is never tested.
FalsyNever(x) == FALSE

\* Variant: an empty result counts as a failure too.
FalsyOrEmpty(x) == ~x.ok \/ Len(x.bytes) = 0

\* if (!encrypted), if (!decrypted): null is falsy, a Uint8Array is not.
Falsy(x) == ~x.ok

Throws(c) == [threw |-> TRUE, value |-> <<>>, c |-> c]

\* encryptFile(data, recipientPublicKey); `boxed` tells whether nacl.box.after
\* returns a box.
encryptFile(c, data, recipientPublicKey, nonce, boxed) ==
    LET sharedKey == getSharedKey(c, recipientPublicKey)
    IN IF sharedKey.threw THEN Throws(sharedKey.c)
       ELSE LET encrypted ==
                   IF boxed
                   THEN SomeBytes(BoxAfter(data, nonce, sharedKey.value))
                   ELSE NullBytes
            IN IF Falsy(encrypted) THEN Throws(sharedKey.c)
               ELSE [threw |-> FALSE,
                     value |-> [encrypted |-> encodeBase64(encrypted.bytes),
                                nonce |-> encodeBase64(nonce)],
                     c |-> sharedKey.c]

\* encrypt(message, recipientPublicKey)
encrypt(c, message, recipientPublicKey, nonce, boxed) ==
    LET sharedKey == getSharedKey(c, recipientPublicKey)
    IN IF sharedKey.threw THEN Throws(sharedKey.c)
       ELSE LET messageBytes == decodeUTF8(message)
                encrypted ==
                   IF boxed
                   THEN SomeBytes(BoxAfter(messageBytes, nonce,
                                           sharedKey.value))
                   ELSE NullBytes
            IN IF Falsy(encrypted) THEN Throws(sharedKey.c)
               ELSE [threw |-> FALSE,
                     value |-> [encrypted |-> encodeBase64(encrypted.bytes),
                                nonce |-> encodeBase64(nonce)],
                     c |-> sharedKey.c]

\* decryptFile(encrypted, nonce, senderPublicKey)
decryptFile(c, encrypted, nonce, senderPublicKey) ==
    LET sharedKey == getSharedKey(c, senderPublicKey)
    IN IF sharedKey.threw THEN Throws(sharedKey.c)
       ELSE LET box == decodeBase64(encrypted)
                n == decodeBase64(nonce)
            IN IF box.threw \/ n.threw THEN Throws(sharedKey.c)
               ELSE LET decrypted ==
                           BoxOpenAfter(box.value, n.value, sharedKey.value)
                    IN IF Falsy(decrypted) THEN Throws(sharedKey.c)
                       ELSE [threw |-> FALSE, value |-> decrypted.bytes,
                             c |-> sharedKey.c]

\* decrypt(encrypted, nonce, senderPublicKey)
decrypt(c, encrypted, nonce, senderPublicKey) ==
    LET sharedKey == getSharedKey(c, senderPublicKey)
    IN IF sharedKey.threw THEN Throws(sharedKey.c)
       ELSE LET box == decodeBase64(encrypted)
                n == decodeBase64(nonce)
            IN IF box.threw \/ n.threw THEN Throws(sharedKey.c)
               ELSE LET decrypted ==
                           BoxOpenAfter(box.value, n.value, sharedKey.value)
                    IN IF Falsy(decrypted) THEN Throws(sharedKey.c)
                       ELSE LET text == encodeUTF8(decrypted.bytes)
                            IN IF text.threw THEN Throws(sharedKey.c)
                               ELSE [threw |-> FALSE, value |-> text.value,
                                     c |-> sharedKey.c]

\* clearKeys()
clearKeys(c) ==
    [c EXCEPT !.sharedKeys = <<>>, !.derived = [k \in PeerKeys |-> 0]]

\* ----------------------------------------------------- generateSafetyNumber
RECURSIVE Digits(_)
Digits(n) ==
    IF n < 10 THEN <<48 + n>> ELSE Digits(n \div 10) \o <<48 + (n % 10)>>

\* Uint8Array.prototype.toString(): the elements in decimal, joined by ','.
RECURSIVE TypedArrayToString(_)
TypedArrayToString(a) ==
    IF Len(a) = 0 THEN <<>>
    ELSE IF Len(a) = 1 THEN Digits(a[1])
    ELSE Digits(a[1]) \o <<44>> \o TypedArrayToString(Tail(a))

\* x < y on strings: by code unit, a proper prefix first.
RECURSIVE StringLess(_, _)
StringLess(x, y) ==
    IF Len(y) = 0 THEN FALSE
    ELSE IF Len(x) = 0 THEN TRUE
    ELSE IF x[1] # y[1] THEN x[1] < y[1]
    ELSE StringLess(Tail(x), Tail(y))

\* myKey < theirKey on two Uint8Arrays: both operands are converted to
\* strings and the strings are compared.
KeyLess(myKey, theirKey) ==
    StringLess(TypedArrayToString(myKey), TypedArrayToString(theirKey))

\* Variant: own key first, whatever the keys.
CombinedOwnFirst(myKey, theirKey) == myKey \o theirKey

\* combined = myKey < theirKey ? [...myKey, ...theirKey]
\*                             : [...theirKey, ...myKey]
Combined(myKey, theirKey) ==
    IF KeyLess(myKey, theirKey) THEN myKey \o theirKey
    ELSE theirKey \o myKey

\* nacl.hash in miniature: 64 bytes, each a sum of the input bytes weighted
\* by position.
RECURSIVE Weighted(_, _, _)
Weighted(b, i, j) ==
    IF j > Len(b) THEN Len(b) + i
    ELSE (i + 2 * j) * b[j] + Weighted(b, i, j + 1)

Hash(b) == [i \in 1..64 |-> Weighted(b, i, 1) % 256]

\* The loop over hash[0..29]: two digits per byte, a space after every
\* fifth pair but the last.
RECURSIVE SafetyDigits(_, _)
SafetyDigits(hash, i) ==
    IF i >= 30 THEN <<>>
    ELSE LET d == hash[i + 1] % 100
         IN <<48 + (d \div 10), 48 + (d % 10)>>
            \o (IF (i + 1) % 5 = 0 /\ i < 29 THEN <<32>> ELSE <<>>)
            \o SafetyDigits(hash, i + 1)

generateSafetyNumber(c, theirPublicKey) ==
    LET myKey == ScalarMultBase(c.secretKey)
        theirKey == decodeBase64(theirPublicKey)
    IN IF theirKey.threw THEN Thrown
       ELSE Returned(SafetyDigits(Hash(Combined(myKey, theirKey.value)), 0))

\* ------------------------------------------------- calls on a SecureCrypto
\* encrypt and encryptFile record the envelope they return in `encrypted`
\* and `nonce`; decrypt and decryptFile record their arguments there and
\* what they return in `result`.
NoCall == [op |-> "none", session |-> Null, peerKey |-> <<>>,
           message |-> <<>>, encrypted |-> <<>>, nonce |-> <<>>,
           boxed |-> TRUE, threw |-> FALSE, result |-> <<>>]

Sealing(op, s, message, recipientPublicKey, nonce, boxed, r) ==
    /\ crypto' = [crypto EXCEPT ![s] = r.c]
    /\ call' = [NoCall EXCEPT !.op = op, !.session = s,
                   !.peerKey = recipientPublicKey, !.message = message,
                   !.boxed = boxed, !.threw = r.threw,
                   !.encrypted = IF r.threw THEN <<>> ELSE r.value.encrypted,
                   !.nonce = IF r.threw THEN <<>> ELSE r.value.nonce]
    /\ UNCHANGED <<server, page, promise, net>>

Encrypt(s, message, recipientPublicKey, nonce, boxed) ==
    Sealing("encrypt", s, message, recipientPublicKey, nonce, boxed,
            encrypt(crypto[s], message, recipientPublicKey, nonce, boxed))

EncryptFile(s, data, recipientPublicKey, nonce, boxed) ==
    Sealing("encryptFile", s, data, recipientPublicKey, nonce, boxed,
            encryptFile(crypto[s], data, recipientPublicKey, nonce, boxed))

\* An envelope as it arrives: as sent, or with the first byte of the
\* ciphertext or of the nonce changed on the way.
Bump(b) == [b EXCEPT ![1] = (@ + 1) % 256]
Rewritten(text) == encodeBase64(Bump(decodeBase64(text).value))
Arriving(envelope, alter) ==
    IF alter = "ciphertext"
    THEN [envelope EXCEPT !.encrypted = Rewritten(@)]
    ELSE IF alter = "nonce"
    THEN [envelope EXCEPT !.nonce = Rewritten(@)]
    ELSE envelope

Opening(op, s, envelope, senderPublicKey, r) ==
    /\ crypto' = [crypto EXCEPT ![s] = r.c]
    /\ call' = [NoCall EXCEPT !.op = op, !.session = s,
                   !.peerKey = senderPublicKey,
                   !.encrypted = envelope.encrypted,
                   !.nonce = envelope.nonce,
                   !.threw = r.threw, !.result = r.value]
    /\ UNCHANGED <<server, page, promise, net>>

\* Session s decrypts what session `from` sealed for it.
Decrypt(s, from, message, nonce, alter, senderPublicKey) ==
    LET sealed == encrypt(crypto[from], message, PublicKeyOf(crypto[s]),
                          nonce, TRUE)
        envelope == Arriving(sealed.value, alter)
    IN /\ ~sealed.threw
       /\ Opening("decrypt", s, envelope, senderPublicKey,
                  decrypt(crypto[s], envelope.encrypted, envelope.nonce,
                          senderPublicKey))

DecryptFile(s, from, data, nonce, alter, senderPublicKey) ==
    LET sealed == encryptFile(crypto[from], data, PublicKeyOf(crypto[s]),
                              nonce, TRUE)
        envelope == Arriving(sealed.value, alter)
    IN /\ ~sealed.threw
       /\ Opening("decryptFile", s, envelope, senderPublicKey,
                  decryptFile(crypto[s], envelope.encrypted, envelope.nonce,
                              senderPublicKey))

ClearKeys(s) ==
    /\ crypto' = [crypto EXCEPT ![s] = clearKeys(@)]
    /\ call' = [NoCall EXCEPT !.op = "clearKeys", !.session = s]
    /\ UNCHANGED <<server, page, promise, net>>

GenerateSafetyNumber(s, theirPublicKey) ==
    LET r == generateSafetyNumber(crypto[s], theirPublicKey)
    IN /\ call' = [NoCall EXCEPT !.op = "generateSafetyNumber",
                      !.session = s, !.peerKey = theirPublicKey,
                      !.threw = r.threw, !.result = r.value]
       /\ UNCHANGED <<server, crypto, page, promise, net>>

\* ================================== RoomPage (components/chat/MessageBubble.tsx)
\* The page of session Tab after initRoom has run: the store (userId, users,
\* messages), the roomUsers snapshot the message listener closes over, and
\* the send-message emits of the handler that ran last.
Tab == "A"
SelfId == "m0"
PeerId == "m1"
OddPeerId == "m2"
StrangerId == "m3"
MessageIds == {"x1"}

\* "[Failed to decrypt message]"
FailedToDecrypt ==
    <<91, 70, 97, 105, 108, 101, 100, 32, 116, 111, 32, 100, 101, 99, 114,
      121, 112, 116, 32, 109, 101, 115, 115, 97, 103, 101, 93>>

NoHandler == [op |-> "none", from |-> Null, content |-> <<>>,
              encrypted |-> <<>>, nonce |-> <<>>, messageId |-> Null,
              altered |-> FALSE, boxed |-> TRUE, failed |-> 0, shown |-> 0]

\* roomUsers.find(u => u.id === msg.from): the index, 0 for undefined.
RECURSIVE FindUser(_, _, _)
FindUser(list, id, i) ==
    IF i > Len(list) THEN 0
    ELSE IF list[i].id = id THEN i
    ELSE FindUser(list, id, i + 1)

\* roomUsers.filter(u => u.id !== newUserId)
RECURSIVE WithoutUser(_, _)
WithoutUser(list, id) ==
    IF Len(list) = 0 THEN <<>>
    ELSE IF list[1].id = id THEN WithoutUser(Tail(list), id)
    ELSE <<list[1]>> \o WithoutUser(Tail(list), id)

\* addMessage
addMessage(p, message) == [p EXCEPT !.messages = Append(@, message)]

\* Variant: the catch block shows what arrived.
FailureShowsCiphertext(msg) ==
    [id |-> msg.messageId, from |-> msg.from, content |-> msg.encrypted,
     isOwn |-> FALSE]

\* The entry of the catch block of the message listener.
FailureEntry(msg) ==
    [id |-> msg.messageId, from |-> msg.from, content |-> FailedToDecrypt,
     isOwn |-> FALSE]

\* onMessage((msg) => ...): an envelope the peer sealed for this session
\* arrives under the id `from`, as sent or altered on the way.
OnMessage(from, message, nonce, alter, messageId) ==
    LET sealed == encrypt(crypto[Other(Tab)], message,
                          PublicKeyOf(crypto[Tab]), nonce, TRUE)
        envelope == Arriving(sealed.value, alter)
        msg == [from |-> from, encrypted |-> envelope.encrypted,
                nonce |-> envelope.nonce, messageId |-> messageId]
        sender == FindUser(page.roomUsers, from, 1)
        ran == [page EXCEPT !.emitted = <<>>,
                  !.handler = [NoHandler EXCEPT !.op = "message",
                      !.from = from, !.content = message,
                      !.encrypted = msg.encrypted, !.nonce = msg.nonce,
                      !.messageId = messageId, !.altered = alter # "none",
                      !.shown = Len(page.messages)]]
    IN /\ page.userId # Null
       /\ ~sealed.threw
       /\ Len(page.messages) < MaxFeed
       /\ IF sender = 0
          THEN /\ page' = ran
               /\ UNCHANGED crypto
          ELSE LET decrypted == decrypt(crypto[Tab], msg.encrypted, msg.nonce,
                                        page.roomUsers[sender].publicKey)
               IN /\ crypto' = [crypto EXCEPT ![Tab] = decrypted.c]
                  /\ page' =
                       IF decrypted.threw
                       THEN addMessage(ran, FailureEntry(msg))
                       ELSE addMessage(ran,
                               [id |-> msg.messageId, from |-> msg.from,
                                content |-> decrypted.value,
                                isOwn |-> FALSE])
       /\ UNCHANGED <<server, call, promise, net>>

\* Variant: the catch block sends the content as it is.
EncryptFailedSendsPlain(content, messageId) ==
    <<[encrypted |-> content, nonce |-> <<>>, messageId |-> messageId]>>

\* catch (err) { console.error(...) }: nothing is sent for this user.
EncryptFailed(content, messageId) == <<>>

\* users.forEach((user) => { try { encrypt; sendMessage } catch { ... } }),
\* from user i on: the instance, the emits and the number of failures.
RECURSIVE ForEachUser(_, _, _, _, _, _, _)
ForEachUser(c, users, i, content, messageId, nonce, boxed) ==
    IF i > Len(users) THEN [c |-> c, emitted |-> <<>>, failed |-> 0]
    ELSE LET r == encrypt(c, content, users[i].publicKey, nonce, boxed)
             rest == ForEachUser(r.c, users, i + 1, content, messageId,
                                 nonce, boxed)
         IN IF r.threw
            THEN [rest EXCEPT
                    !.emitted = EncryptFailed(content, messageId) \o @,
                    !.failed = @ + 1]
            ELSE [rest EXCEPT
                    !.emitted = <<[encrypted |-> r.value.encrypted,
                                   nonce |-> r.value.nonce,
                                   messageId |-> messageId]>> \o @]

handleSendMessage(content, messageId, nonce, boxed) ==
    LET ran == [page EXCEPT !.emitted = <<>>,
                  !.handler = [NoHandler EXCEPT !.op = "send",
                      !.content = content, !.messageId = messageId,
                      !.boxed = boxed, !.shown = Len(page.messages)]]
    IN /\ Len(page.messages) < MaxFeed
       /\ IF page.userId = Null \/ Len(page.users) = 0
          THEN /\ page' = ran
               /\ UNCHANGED crypto
          ELSE LET each == ForEachUser(crypto[Tab], page.users, 1, content,
                                       messageId, nonce, boxed)
               IN /\ crypto' = [crypto EXCEPT ![Tab] = each.c]
                  /\ page' = addMessage(
                               [ran EXCEPT !.emitted = each.emitted,
                                           !.handler.failed = each.failed],
                               [id |-> messageId, from |-> page.userId,
                                content |-> content, isOwn |-> TRUE])
       /\ UNCHANGED <<server, call, promise, net>>

\* ------------------------------------------- membership and relayed events
ThirdId == "m4"
SystemIds == {"n1"}
PageIds == <<SelfId, PeerId, OddPeerId, StrangerId, ThirdId>>

\* The text of a member id, of " joined the room" and of " left the room".
IdText(id) == <<109, 47 + (CHOOSE i \in 1..Len(PageIds) : PageIds[i] = id)>>
JoinedTheRoom ==
    <<32, 106, 111, 105, 110, 101, 100, 32, 116, 104, 101, 32, 114, 111,
      111, 109>>
LeftTheRoom ==
    <<32, 108, 101, 102, 116, 32, 116, 104, 101, 32, 114, 111, 111, 109>>

\* addUser / removeUser of the store
addUser(p, user) == [p EXCEPT !.users = Append(@, user)]
removeUser(p, userId) == [p EXCEPT !.users = WithoutUser(@, userId)]

\* onUserJoined((user) => { addUser(user); addMessage(...) })
OnUserJoined(user, systemId) ==
    LET ran == [page EXCEPT !.emitted = <<>>,
                  !.handler = [NoHandler EXCEPT !.op = "user-joined",
                      !.from = user.id, !.shown = Len(page.messages)]]
    IN /\ page.userId # Null
       /\ Len(page.messages) < MaxFeed
       /\ FindUser(page.users, user.id, 1) = 0
       /\ page' = addMessage(addUser(ran, user),
                     [id |-> systemId, from |-> "system",
                      content |-> IdText(user.id) \o JoinedTheRoom,
                      isOwn |-> FALSE])
       /\ UNCHANGED <<server, crypto, call, promise, net>>

\* onUserLeft((data) => { removeUser(data.userId); addMessage(...) })
OnUserLeft(userId, systemId) ==
    LET ran == [page EXCEPT !.emitted = <<>>,
                  !.handler = [NoHandler EXCEPT !.op = "user-left",
                      !.from = userId, !.shown = Len(page.messages)]]
    IN /\ page.userId # Null
       /\ Len(page.messages) < MaxFeed
       /\ FindUser(page.users, userId, 1) # 0
       /\ page' = addMessage(removeUser(ran, userId),
                     [id |-> systemId, from |-> "system",
                      content |-> IdText(userId) \o LeftTheRoom,
                      isOwn |-> FALSE])
       /\ UNCHANGED <<server, crypto, call, promise, net>>

\* socket.to(currentRoomId).emit('message', messageData) for each
\* send-message of one handleSendMessage run: every other member, this
\* page among them, is sent every envelope. `sealedFor` is the key the
\* envelope at that position was sealed for.
Relayed(from, emitted, users, content) ==
    [i \in 1..Len(emitted) |->
        [ev |-> "message", from |-> from,
         encrypted |-> emitted[i].encrypted, nonce |-> emitted[i].nonce,
         messageId |-> emitted[i].messageId,
         sealedFor |-> users[i].publicKey, content |-> content]]

\* The peer's page, running the same client, sends one message to its
\* users list; the relay passes each of its send-message emits on.
PeerSends(users, content, messageId, nonce) ==
    LET each == ForEachUser(crypto[Other(Tab)], users, 1, content,
                            messageId, nonce, TRUE)
    IN /\ page.userId # Null
       /\ net = <<>>
       /\ FindUser(page.users, PeerId, 1) # 0
       /\ \A i \in 1..Len(page.messages) : page.messages[i].id # messageId
       /\ each.failed = 0
       /\ crypto' = [crypto EXCEPT ![Other(Tab)] = each.c]
       /\ net' = Relayed(PeerId, each.emitted, users, content)
       /\ UNCHANGED <<server, call, page, promise>>

\* The message listener runs on the next relayed event.
OnRelayed ==
    LET msg == net[1]
        sender == FindUser(page.roomUsers, msg.from, 1)
        ran == [page EXCEPT !.emitted = <<>>,
                  !.handler = [NoHandler EXCEPT !.op = "relayed",
                      !.from = msg.from, !.content = msg.content,
                      !.encrypted = msg.encrypted, !.nonce = msg.nonce,
                      !.messageId = msg.messageId,
                      !.shown = Len(page.messages)]]
    IN /\ Len(net) > 0
       /\ net[1].ev = "message"
       /\ net' = Tail(net)
       /\ IF sender = 0
          THEN /\ page' = ran
               /\ UNCHANGED crypto
          ELSE LET decrypted == decrypt(crypto[Tab], msg.encrypted, msg.nonce,
                                        page.roomUsers[sender].publicKey)
               IN /\ crypto' = [crypto EXCEPT ![Tab] = decrypted.c]
                  /\ page' =
                       IF decrypted.threw
                       THEN addMessage(ran, FailureEntry(msg))
                       ELSE addMessage(ran,
                               [id |-> msg.messageId, from |-> msg.from,
                                content |-> decrypted.value,
                                isOwn |-> FALSE])
       /\ UNCHANGED <<server, call, promise>>

\* ======================================= joinRoom (client/src/lib/socket.ts)
\* The promise joinRoom returns: its state and value, how often it was
\* settled, the once('room-joined') listener, the setTimeout timer and the
\* seconds gone since the call; `request` is what was emitted, `answered`
\* whether the server has sent its answer, `late` whether room-joined was
\* handled after the timer had fired.
NoPromise == [state |-> "none", value |-> <<>>, settled |-> 0,
              listener |-> FALSE, timer |-> "none", elapsed |-> 0,
              request |-> <<>>, answered |-> FALSE, late |-> FALSE]

JoinTimeoutError == <<"Join timeout">>

\* Variant: the last resolve or reject wins.
SettleAgain(p, state, value) ==
    [p EXCEPT !.state = state, !.value = value, !.settled = @ + 1]

\* resolve(...) and reject(...) of a Promise: only the first call settles it.
Settle(p, state, value) ==
    IF p.state = "pending"
    THEN [p EXCEPT !.state = state, !.value = value, !.settled = @ + 1]
    ELSE p

\* joinRoom(roomId, publicKey, userName): emit join-room, register the
\* listener, start the timer.
JoinRoomCall(roomId, publicKey) ==
    /\ promise.state = "none"
    /\ promise' = [NoPromise EXCEPT !.state = "pending", !.listener = TRUE,
                      !.timer = "armed",
                      !.request = <<roomId, publicKey>>]
    /\ net' = <<>>
    /\ UNCHANGED <<server, crypto, call, page>>

\* The server handles the join-room: room-joined, or error for a request
\* without roomId or publicKey. It may also never answer.
ServerAnswers(userId, users) ==
    /\ promise.state # "none"
    /\ ~promise.answered
    /\ promise' = [promise EXCEPT !.answered = TRUE]
    /\ net' = Append(net,
                IF JoinRejected(promise.request[1], promise.request[2])
                THEN [ev |-> "error", userId |-> Null, users |-> <<>>]
                ELSE [ev |-> "room-joined", userId |-> userId,
                      users |-> users])
    /\ UNCHANGED <<server, crypto, call, page>>

\* An event reaches the socket: s.once('room-joined', ...) runs at most
\* once; nothing listens to 'error'.
Receive ==
    /\ Len(net) > 0
    /\ net' = Tail(net)
    /\ promise' =
         IF net[1].ev = "room-joined" /\ promise.listener
         THEN [Settle(promise, "fulfilled",
                      <<net[1].userId, net[1].users>>)
                 EXCEPT !.listener = FALSE,
                        !.late = promise.timer = "fired"]
         ELSE promise
    /\ UNCHANGED <<server, crypto, call, page>>

\* A second passes; the timer callback runs no later than its deadline.
Second ==
    /\ promise.state # "none"
    /\ promise.elapsed < MaxElapsed
    /\ promise.timer = "armed" => promise.elapsed < JoinTimeout
    /\ promise' = [promise EXCEPT !.elapsed = @ + 1]
    /\ UNCHANGED <<server, crypto, call, page, net>>

\* setTimeout(() => reject(new Error('Join timeout')), 10000)
TimerFires ==
    /\ promise.timer = "armed"
    /\ promise.elapsed >= JoinTimeout
    /\ promise' = [Settle(promise, "rejected", JoinTimeoutError)
                     EXCEPT !.timer = "fired"]
    /\ UNCHANGED <<server, crypto, call, page, net>>

\* ------------------------------------------------------- specifications
Sockets(n) == {SocketId(i) : i \in 1..n}
Ciphertexts == {"c1"}
Signals == {"sdp"}

Membership(n) ==
    \/ \E i \in 1..n : Connection(i)
    \/ \E sid \in Sockets(n), roomId \in RoomIds \cup {Null},
          publicKey \in PublicKeys \cup {Null},
          userName \in UserNames, userId \in MemberIds :
          JoinRoom(sid, roomId, publicKey, userName, userId)
    \/ \E sid \in Sockets(n) : LeaveRoom(sid)
    \/ \E sid \in Sockets(n) : Disconnect(sid)

\* Membership and addressed or broadcast relay, clock at rest.
Next ==
    \/ Membership(NumSockets)
    \/ \E sid \in Sockets(NumSockets), encrypted \in Ciphertexts,
          recipientId \in MemberIds \cup {Null} :
          SendMessage(sid, encrypted, recipientId)
    \/ \E sid \in Sockets(NumSockets), to \in MemberIds \cup {Null},
          signal \in Signals :
          CallSignal(sid, to, signal)

Spec == Init /\ [][Next]_vars

\* Membership under a moving clock, with the sweeper.
NextLifecycle ==
    \/ Membership(NumLifecycleSockets)
    \/ Sweeper
    \/ Tick

SpecLifecycle == Init /\ [][NextLifecycle]_vars


\* Membership with named and unnamed joins, and every routing handler.
TypingFlags == {TRUE}
CallTypes == {"video"}

NextRouting ==
    \/ \E i \in 1..NumLifecycleSockets : Connection(i)
    \/ \E sid \in Sockets(NumLifecycleSockets), roomId \in RoomIds,
          publicKey \in PublicKeys, userName \in UserNames \cup {Null},
          userId \in MemberIds :
          JoinRoom(sid, roomId, publicKey, userName, userId)
    \/ \E sid \in Sockets(NumLifecycleSockets) : LeaveRoom(sid)
    \/ \E sid \in Sockets(NumLifecycleSockets) : Disconnect(sid)
    \/ \E sid \in Sockets(NumLifecycleSockets), encrypted \in Ciphertexts,
          recipientId \in MemberIds \cup {Null} :
          SendMessage(sid, encrypted, recipientId)
    \/ \E sid \in Sockets(NumLifecycleSockets), isTyping \in TypingFlags :
          Typing(sid, isTyping)
    \/ \E sid \in Sockets(NumLifecycleSockets), type \in CallTypes :
          CallStart(sid, type)
    \/ \E sid \in Sockets(NumLifecycleSockets), to \in MemberIds \cup {Null},
          signal \in Signals :
          CallSignal(sid, to, signal)
    \/ \E sid \in Sockets(NumLifecycleSockets) : CallEnd(sid)

SpecRouting == Init /\ [][NextRouting]_vars

\* Membership under a moving clock with the sweeper, and every handler that
\* reads currentRoomId.
NextGuards ==
    \/ NextLifecycle
    \/ \E sid \in Sockets(NumLifecycleSockets), encrypted \in Ciphertexts :
          SendMessage(sid, encrypted, Null)
    \/ \E sid \in Sockets(NumLifecycleSockets), isTyping \in TypingFlags :
          Typing(sid, isTyping)
    \/ \E sid \in Sockets(NumLifecycleSockets), type \in CallTypes :
          CallStart(sid, type)
    \/ \E sid \in Sockets(NumLifecycleSockets), signal \in Signals :
          CallSignal(sid, Null, signal)
    \/ \E sid \in Sockets(NumLifecycleSockets) : CallEnd(sid)

SpecGuards == Init /\ [][NextGuards]_vars

\* Two sessions with their own key pairs call into their SecureCrypto.
SessionKey(s) == IF s = "A" THEN 1 ELSE 2
SessionKeys == {PublicKeyFor(SessionKey(s)) : s \in Sessions}
\* The empty string, and one with a one-byte and a two-byte character.
Plaintexts == {<<>>, <<97, 233>>}
Files == {<<0, 255>>}
Nonces == {<<n>> : n \in 1..NumNonces}
Alterations == {"none", "ciphertext", "nonce"}

InitCrypto ==
    /\ ServerInit
    /\ crypto = [s \in Sessions |-> NewSecureCrypto(SessionKey(s))]
    /\ call = NoCall
    /\ page = <<>>
    /\ promise = <<>>
    /\ net = <<>>

NextCrypto ==
    \/ \E s \in Sessions, message \in Plaintexts,
          k \in SessionKeys \cup {ShortKey}, nonce \in Nonces,
          boxed \in BOOLEAN :
          Encrypt(s, message, k, nonce, boxed)
    \/ \E s \in Sessions, message \in Plaintexts,
          nonce \in Nonces, alter \in Alterations,
          k \in SessionKeys \cup {ShortKey} :
          Decrypt(s, Other(s), message, nonce, alter, k)
    \/ \E s \in Sessions, data \in Files,
          k \in SessionKeys \cup {ShortKey}, nonce \in Nonces,
          boxed \in BOOLEAN :
          EncryptFile(s, data, k, nonce, boxed)
    \/ \E s \in Sessions, data \in Files,
          nonce \in Nonces, alter \in {"none", "ciphertext"},
          k \in SessionKeys :
          DecryptFile(s, Other(s), data, nonce, alter, k)
    \/ \E s \in Sessions : ClearKeys(s)

SpecCrypto == InitCrypto /\ [][NextCrypto]_vars

\* Any two key pairs, equal ones included, and any peer key handed to
\* generateSafetyNumber.
NotBase64 == <<1>>

InitSafetyNumber ==
    /\ ServerInit
    /\ crypto \in [Sessions -> {NewSecureCrypto(k) : k \in SecretKeys}]
    /\ call = NoCall
    /\ page = <<>>
    /\ promise = <<>>
    /\ net = <<>>

NextSafetyNumber ==
    \E s \in Sessions, k \in PeerKeys \cup {NotBase64} :
       GenerateSafetyNumber(s, k)

SpecSafetyNumber == InitSafetyNumber /\ [][NextSafetyNumber]_vars

\* The page has joined: the room-joined list holds the members in joining
\* order, this session last; a peer may have presented any string as its
\* public key.
Peer == [id |-> PeerId, publicKey |-> PublicKeyFor(SessionKey(Other(Tab)))]
OddPeer == [id |-> OddPeerId, publicKey |-> ShortKey]
Self == [id |-> SelfId, publicKey |-> PublicKeyFor(SessionKey(Tab))]
Snapshots == {<<Self>>, <<Peer, Self>>, <<OddPeer, Self>>,
              <<Peer, OddPeer, Self>>}

InitPage ==
    /\ ServerInit
    /\ promise = <<>>
    /\ net = <<>>
    /\ crypto = [s \in Sessions |-> NewSecureCrypto(SessionKey(s))]
    /\ call = NoCall
    /\ \E roomUsers \in Snapshots :
          page = [userId |-> SelfId, roomUsers |-> roomUsers,
                  users |-> WithoutUser(roomUsers, SelfId),
                  messages |-> <<>>, emitted |-> <<>>, handler |-> NoHandler]

NextPage ==
    \/ \E from \in {PeerId, OddPeerId, StrangerId}, message \in Plaintexts,
          nonce \in Nonces, alter \in Alterations, messageId \in MessageIds :
          OnMessage(from, message, nonce, alter, messageId)
    \/ \E content \in Plaintexts, messageId \in MessageIds, nonce \in Nonces,
          boxed \in BOOLEAN :
          handleSendMessage(content, messageId, nonce, boxed)

SpecPage == InitPage /\ [][NextPage]_vars

\* The page in a room whose members come and go while the peer sends.
Third == [id |-> ThirdId, publicKey |-> PublicKeyFor(3)]
RelayIds == {"x1", "x2"}
PeerUsers == {<<Self>>, <<Self, Third>>, <<Third, Self>>}

InitMembers ==
    /\ ServerInit
    /\ promise = <<>>
    /\ net = <<>>
    /\ crypto = [s \in Sessions |-> NewSecureCrypto(SessionKey(s))]
    /\ call = NoCall
    /\ \E roomUsers \in {<<Self>>, <<Peer, Self>>} :
          page = [userId |-> SelfId, roomUsers |-> roomUsers,
                  users |-> WithoutUser(roomUsers, SelfId),
                  messages |-> <<>>, emitted |-> <<>>, handler |-> NoHandler]

NextMembers ==
    \/ \E user \in {Peer, Third}, systemId \in SystemIds :
          OnUserJoined(user, systemId)
    \/ \E userId \in {PeerId, ThirdId}, systemId \in SystemIds :
          OnUserLeft(userId, systemId)
    \/ \E users \in PeerUsers, content \in Plaintexts,
          messageId \in RelayIds, nonce \in Nonces :
          PeerSends(users, content, messageId, nonce)
    \/ OnRelayed

SpecMembers == InitMembers /\ [][NextMembers]_vars

\* One join handshake against a server that answers at any time or never.
RoomJoinedLists == {<<>>, <<[id |-> "m1", publicKey |-> "k1"]>>}

InitJoin ==
    /\ ServerInit
    /\ crypto = <<>>
    /\ call = <<>>
    /\ page = <<>>
    /\ promise = NoPromise
    /\ net = <<>>

NextJoin ==
    \/ \E roomId \in PlainRoomIds \cup {Null},
          publicKey \in PublicKeys \cup {Null} :
          JoinRoomCall(roomId, publicKey)
    \/ \E userId \in MemberIds, users \in RoomJoinedLists :
          ServerAnswers(userId, users)
    \/ Receive
    \/ Second
    \/ TimerFires

\* Time passes and a timer that is due fires.
SpecJoin ==
    /\ InitJoin
    /\ [][NextJoin]_vars
    /\ WF_vars(Second)
    /\ WF_vars(TimerFires)
\* ================================================================ claims
Members(r) == MemberSids(rooms[r].users)

\* What the handlers must not touch when they only route or reject.
Registry == <<rooms, currentRoomId, adapter, connected>>

\* The join request lacked its roomId or its publicKey.
Missing(l) == l.roomId = Null \/ l.publicKey = Null

JoinAccepted == last.op = "join-room" /\ ~Missing(last)

\* The room-joined response and the user-joined notice of an accepted join.
Joined == out[Len(out) - 1]
Notified == out[Len(out)]

HoldsId(users, id) == \E i \in 1..Len(users) : users[i].id = id

ErrorTo(sid, e) == e.ev = "error" /\ e.to = {sid}

\* C1 (as amended): the users list of every room-joined response holds one
\* record per current member of the room, in insertion order, the joiner's
\* own record included as its last entry; the first connection to join an
\* unknown roomId receives a list that holds exactly its own record.
C1_JoinedListsEveryMember ==
    JoinAccepted =>
      LET users == rooms[last.roomId].users
          list == Joined.data.users
      IN /\ Len(out) >= 2
         /\ Joined.ev = "room-joined"
         /\ Joined.to = {last.sid}
         /\ list = ExistingUsers(users)
         /\ Len(list) = Cardinality(Members(last.roomId))
         /\ list[Len(list)].id = last.userId
         /\ list[Len(list)].publicKey = last.publicKey
         /\ (Members(last.roomId) = {last.sid} => Len(list) = 1)

\* C1 as written: the list holds the records of the other members only.
C1_JoinedListsOthersOnly ==
    JoinAccepted =>
      Joined.data.users =
          ExistingUsers(UsersDelete(rooms[last.roomId].users, last.sid))

C1_Witness ==
    /\ JoinAccepted
    /\ Len(rooms[last.roomId].users) >= 2
    /\ Len(Joined.data.users) >= 2

\* C2: after every handler a room id is in the room table if and only if the
\* room has at least one member; a join to an unknown room id creates the
\* room with the joiner as its only member, and the leave or disconnect of
\* the only member removes the room in that same step.
RoomIffMembers ==
    \A r \in RoomIds : rooms[r].exists <=> Len(rooms[r].users) >= 1

FirstJoinCreates ==
    (last'.op = "join-room" /\ ~Missing(last') /\ ~rooms[last'.roomId].exists)
      => /\ rooms'[last'.roomId].exists
         /\ Len(rooms'[last'.roomId].users) = 1
         /\ rooms'[last'.roomId].users[1].sid = last'.sid

LastLeaveRemoves ==
    (/\ last'.op \in {"leave-room", "disconnect"}
     /\ currentRoomId[last'.sid] # Null
     /\ Members(currentRoomId[last'.sid]) = {last'.sid})
      => ~rooms'[currentRoomId[last'.sid]].exists

C2_RoomIffMembers ==
    /\ []RoomIffMembers
    /\ [][FirstJoinCreates /\ LastLeaveRemoves]_vars

C2_Witness ==
    /\ last.op \in {"leave-room", "disconnect"}
    /\ last.was # Null
    /\ ~rooms[last.was].exists
    /\ \E r \in RoomIds : rooms[r].exists

\* C3: no connection is in the member maps of two rooms, nor twice in one;
\* a join by a connection that is a member of another room has removed that
\* membership (and announced it) when the new one is registered.
C3_AtMostOneRoom ==
    /\ \A s \in SocketIds : Cardinality({r \in RoomIds : s \in Members(r)}) <= 1
    /\ \A r \in RoomIds : Cardinality(Members(r)) = Len(rooms[r].users)
    /\ (JoinAccepted /\ last.was # Null /\ last.was # last.roomId)
         => /\ last.sid \notin Members(last.was)
            /\ last.sid \in Members(last.roomId)
            /\ out[1].ev = "user-left"

C3_Witness ==
    /\ JoinAccepted
    /\ last.was # Null
    /\ last.was # last.roomId
    /\ rooms[last.was].exists

\* C4 as written: a send-message without recipientId from a member of room R
\* is emitted once, to exactly the connections of the other members of R.
C4_BroadcastReachesOthersOnly ==
    (/\ last.op = "send-message"
     /\ last.to = Null
     /\ last.was # Null
     /\ last.sid \in Members(last.was))
      => /\ Len(out) = 1
         /\ out[1].ev = "message"
         /\ out[1].to = Members(last.was) \ {last.sid}

\* C5 as written: a send-message whose recipientId is the id of a member of
\* the sender's room is emitted once, to that member's connection alone.
C5_DirectReachesTargetOnly ==
    (/\ last.op = "send-message"
     /\ last.to # Null
     /\ last.was # Null
     /\ HoldsId(rooms[last.was].users, last.to))
      => /\ Len(out) = 1
         /\ out[1].ev = "message"
         /\ \E i \in 1..Len(rooms[last.was].users) :
               /\ rooms[last.was].users[i].id = last.to
               /\ out[1].to = {rooms[last.was].users[i].sid}

\* C6 (as amended): a send-message from a connection that is in no room
\* delivers nothing to any other connection and leaves the registry as it
\* was; the sender itself is answered with one error event.
C6_SendOutsideRoomAnswersError ==
    [][(last'.op = "send-message" /\ currentRoomId[last'.sid] = Null)
         => /\ Len(out') = 1
            /\ ErrorTo(last'.sid, out'[1])
            /\ UNCHANGED Registry]_vars

\* C6 as written: such a send-message emits nothing at all, no error either.
C6_SendOutsideRoomSilent ==
    (last.op = "send-message" /\ last.was = Null) => out = <<>>

C6_Witness ==
    /\ last.op = "send-message"
    /\ last.was = Null
    /\ out # <<>>
    /\ \E r \in RoomIds : rooms[r].exists

\* C7: a call-signal, or a send-message with a recipientId, from a member of
\* room R whose target id is held by no member of R emits nothing (no
\* delivery, no error) and leaves the registry as it was.
C7_RoutingMissSilent ==
    [][LET cur == currentRoomId[last'.sid] IN
       (/\ last'.op \in {"call-signal", "send-message"}
        /\ last'.to # Null
        /\ cur # Null
        /\ last'.sid \in Members(cur)
        /\ ~HoldsId(rooms[cur].users, last'.to))
         => /\ out' = <<>>
            /\ UNCHANGED Registry]_vars

C7_Witness ==
    /\ last.op = "call-signal"
    /\ last.to # Null
    /\ last.was # Null
    /\ last.sid \in Members(last.was)
    /\ ~HoldsId(rooms[last.was].users, last.to)
    /\ out = <<>>

\* C8 as written: no two joins of one room lifetime receive the same id, so
\* no two members present in a room share their id.
C8_MemberIdsDistinct ==
    \A r \in RoomIds : \A i, j \in 1..Len(rooms[r].users) :
        i # j => rooms[r].users[i].id # rooms[r].users[j].id

\* C9: a join-room without roomId or without publicKey is answered with one
\* error event to the requester alone and changes nothing: the room table,
\* the member maps, the adapter rooms and the requester's current room (a
\* membership it holds included) stay as they were.
C9_RejectedJoinChangesNothing ==
    [][(last'.op = "join-room" /\ Missing(last'))
         => /\ Len(out') = 1
            /\ ErrorTo(last'.sid, out'[1])
            /\ UNCHANGED Registry]_vars

C9_Witness ==
    /\ last.op = "join-room"
    /\ Missing(last)
    /\ last.was # Null
    /\ last.sid \in Members(last.was)
    /\ currentRoomId[last.sid] = last.was

\* C10 as written: a leave-room or disconnect of a connection that is in no
\* room emits nothing; one of a member emits user-left once, to exactly the
\* members that remain in the room.
C10_OneUserLeftToRemaining ==
    last.op \in {"leave-room", "disconnect"} =>
      IF last.was = Null THEN out = <<>>
      ELSE /\ Len(out) = 1
           /\ out[1].ev = "user-left"
           /\ out[1].to = Members(last.was)

\* C11: a sweeper run removes a room only if the room has no member and is
\* older than MAX_AGE; a room that has a member is left exactly as it was,
\* whatever its age, and no member map changes.
C11_SweeperRemovesOnlyOldEmptyRooms ==
    [][last'.op = "sweeper" =>
         \A r \in RoomIds :
            /\ (rooms[r].exists /\ ~rooms'[r].exists)
                  => /\ Len(rooms[r].users) = 0
                     /\ now - rooms[r].createdAt > MAX_AGE
            /\ (rooms[r].exists /\ Len(rooms[r].users) >= 1)
                  => rooms'[r] = rooms[r]
            /\ rooms'[r].exists => rooms'[r].users = rooms[r].users]_vars

\* The sweeper has run over a room that is older than MAX_AGE and has a
\* member.
C11_Witness ==
    /\ last.op = "sweeper"
    /\ \E r \in RoomIds :
          /\ rooms[r].exists
          /\ Len(rooms[r].users) >= 1
          /\ now - rooms[r].createdAt > MAX_AGE

\* How often an event is emitted by the last step.
CountEv(ev) == Cardinality({i \in 1..Len(out) : out[i].ev = ev})

\* C12 as written: an accepted join sends exactly one user-joined, which
\* carries the joiner's assigned id and its publicKey as received and reaches
\* every other member of the room and not the joiner.
C12_OthersNotifiedOnce ==
    JoinAccepted =>
      /\ CountEv("user-joined") = 1
      /\ Notified.ev = "user-joined"
      /\ Notified.data.id = last.userId
      /\ Notified.data.publicKey = last.publicKey
      /\ Notified.to = Members(last.roomId) \ {last.sid}

\* The id stored in room r under socket s.
IdOf(r, s) == UsersGet(rooms[r].users, s).id

\* A relayed message carries the id stored under the sending socket.
MessageCarriesStoredId ==
    (last.op = "send-message" /\ CountEv("message") > 0) =>
      /\ last.sid \in Members(last.was)
      /\ \A i \in 1..Len(out) :
            out[i].ev = "message" => out[i].data.id = IdOf(last.was, last.sid)

\* The stored id of a socket is written by that socket's own accepted join,
\* with the id drawn at that join, and by no other step.
StoredIdWrittenByJoin ==
    \A r \in RoomIds, s \in SocketIds :
       /\ (last'.op = "join-room" /\ ~Missing(last') /\ last'.sid = s
              /\ last'.roomId = r)
             => s \in Members(r)' /\ IdOf(r, s)' = last'.userId
       /\ (s \in Members(r)'
              /\ ~(last'.op = "join-room" /\ ~Missing(last') /\ last'.sid = s
                     /\ last'.roomId = r))
             => s \in Members(r) /\ IdOf(r, s)' = IdOf(r, s)

\* C13: every relayed message carries as sender id the id assigned to the
\* sending connection at its most recent join; the value comes from the
\* member map, whatever the send-message payload holds.
C13_SenderIdFromRegistry ==
    []MessageCarriesStoredId /\ [][StoredIdWrittenByJoin]_vars

\* A member's message has been relayed to another connection.
C13_Witness ==
    /\ last.op = "send-message"
    /\ Len(out) = 1
    /\ out[1].ev = "message"
    /\ out[1].to # {}
    /\ out[1].data.id = IdOf(last.was, last.sid)

\* What session `from` seals for session `to`, its cache as it stands now.
SealedFor(from, to, message, nonce) ==
    encrypt(crypto[from], message, PublicKeyOf(crypto[to]), nonce, TRUE)

\* The last decrypt was handed, unaltered, what the peer's encrypt returns
\* for `message`, together with the peer's public key.
OpensSealed(message, nonce) ==
    LET sealed == SealedFor(Other(call.session), call.session, message, nonce)
    IN /\ call.op = "decrypt"
       /\ ~sealed.threw
       /\ call.encrypted = sealed.value.encrypted
       /\ call.nonce = sealed.value.nonce
       /\ call.peerKey = PublicKeyOf(crypto[Other(call.session)])

\* C14: what one session's encrypt returns for a plaintext and the peer's
\* public key, the peer's decrypt turns back into exactly that plaintext when
\* given the sender's public key; the empty string included, and whatever
\* the two key caches hold.
C14_DecryptInvertsEncrypt ==
    \A message \in Plaintexts, nonce \in Nonces :
       OpensSealed(message, nonce) =>
          /\ ~call.threw
          /\ call.result = message

\* The empty string has made the round trip while the sender's cache holds
\* no entry.
C14_Witness ==
    /\ OpensSealed(<<>>, <<1>>)
    /\ ~call.threw
    /\ Len(call.result) = 0
    /\ Len(crypto[Other(call.session)].sharedKeys) = 0
    /\ Len(crypto[call.session].sharedKeys) = 2

\* nacl.box.open.after reports failure for the arguments of a decrypt by
\* instance c.
OpenFails(c, encrypted, nonce, senderPublicKey) ==
    LET sharedKey == getSharedKey(c, senderPublicKey)
        box == decodeBase64(encrypted)
        n == decodeBase64(nonce)
    IN /\ ~sharedKey.threw
       /\ ~box.threw
       /\ ~n.threw
       /\ ~BoxOpenAfter(box.value, n.value, sharedKey.value).ok

\* The cache after a call is the cache before it, or that cache with one
\* entry added for key k.
AtMostOneAdded(before, after, k) ==
    \/ after = before
    \/ /\ ~MapHas(before, k)
       /\ Len(after) = Len(before) + 1
       /\ SubSeq(after, 1, Len(before)) = before
       /\ after[Len(after)].key = k

\* C15: when the authenticated-decryption primitive reports failure, decrypt
\* throws and returns no plaintext; the cache of the session gains at most
\* one entry, for the peer key supplied, and the other session is untouched.
C15_DecryptFailsClosed ==
    [][(call'.op = "decrypt"
          /\ OpenFails(crypto[call'.session], call'.encrypted, call'.nonce,
                       call'.peerKey))
         => /\ call'.threw
            /\ Len(call'.result) = 0
            /\ AtMostOneAdded(crypto[call'.session].sharedKeys,
                              crypto'[call'.session].sharedKeys,
                              call'.peerKey)
            /\ crypto'[Other(call'.session)] = crypto[Other(call'.session)]
      ]_vars

\* A decrypt under the sender's own public key has thrown: the envelope was
\* altered on the way.
C15_Witness ==
    /\ call.op = "decrypt"
    /\ call.threw
    /\ call.peerKey = PublicKeyOf(crypto[Other(call.session)])
    /\ MapHas(crypto[call.session].sharedKeys, call.peerKey)

Derivable(c, k) == ~deriveSharedKey(c, k).threw

\* The cache of instance c: one entry per derivable peer key that went
\* through the lookup since the cache was last empty, each holding what
\* deriveSharedKey returns for its key, and no key derived twice.
CacheExact(c) ==
    /\ \A i, j \in 1..Len(c.sharedKeys) :
          i # j => c.sharedKeys[i].key # c.sharedKeys[j].key
    /\ \A i \in 1..Len(c.sharedKeys) :
          LET e == c.sharedKeys[i]
          IN /\ e.key \in PeerKeys
             /\ Derivable(c, e.key)
             /\ e.value = deriveSharedKey(c, e.key).value
    /\ \A k \in PeerKeys :
          Derivable(c, k) =>
             /\ c.derived[k] <= 1
             /\ MapHas(c.sharedKeys, k) <=> c.derived[k] = 1

LookupCalls == {"encrypt", "decrypt", "encryptFile", "decryptFile"}

\* The peer key of the call that just returned is in the cache.
UsedKeyCached ==
    (call.op \in LookupCalls /\ Derivable(crypto[call.session], call.peerKey))
       => MapHas(crypto[call.session].sharedKeys, call.peerKey)

\* Entries stay, in place, until clearKeys.
EntriesStay ==
    \A s \in Sessions :
       (call'.op # "clearKeys" \/ call'.session # s)
          => /\ Len(crypto'[s].sharedKeys) >= Len(crypto[s].sharedKeys)
             /\ SubSeq(crypto'[s].sharedKeys, 1, Len(crypto[s].sharedKeys))
                   = crypto[s].sharedKeys

C20_SafetyNumberSymmetric ==
    LET s == call.session
        t == Other(call.session)
    IN (call.op = "generateSafetyNumber"
          /\ call.peerKey = PublicKeyOf(crypto[t]))
         => LET back == generateSafetyNumber(crypto[t], PublicKeyOf(crypto[s]))
            IN /\ ~call.threw
               /\ ~back.threw
               /\ call.result = back.value

\* The number was computed peer key first: the two keys differ, share their
\* first byte, and the own key is not the smaller one as strings although it
\* is the smaller one as numbers.
C20_Witness ==
    LET myKey == ScalarMultBase(crypto[call.session].secretKey)
        theirKey == ScalarMultBase(crypto[Other(call.session)].secretKey)
    IN /\ call.op = "generateSafetyNumber"
       /\ call.peerKey = PublicKeyOf(crypto[Other(call.session)])
       /\ ~call.threw
       /\ myKey # theirKey
       /\ myKey[1] = theirKey[1]
       /\ ~KeyLess(myKey, theirKey)
       /\ FromKey(myKey) < FromKey(theirKey)

\* The handler that ran last, and whether the envelope it received cannot
\* open: it was altered on the way, or the snapshot holds for its sender a
\* key that is not the sealing session's.
Handled == page.handler
CannotOpen(h) == h.altered \/ h.from # PeerId

Shown(h, content) ==
    [id |-> h.messageId, from |-> h.from, content |-> content,
     isOwn |-> FALSE]

\* C16: an incoming message of a known sender that fails to decrypt adds
\* exactly one entry to the feed, the failure marker, and neither the
\* ciphertext nor the plaintext; a message that arrives intact, after
\* failures too, adds its plaintext.
C16_FailureMarkedFeedContinues ==
    [][LET h == page'.handler
       IN (h.op = "message" /\ FindUser(page.roomUsers, h.from, 1) # 0)
            => /\ CannotOpen(h) =>
                    page'.messages =
                       Append(page.messages, Shown(h, FailedToDecrypt))
               /\ ~CannotOpen(h) =>
                    page'.messages = Append(page.messages, Shown(h, h.content))
               /\ page'.messages[Len(page'.messages)].content # h.encrypted
      ]_vars

\* An altered message was marked and the next message was shown.
C16_Witness ==
    /\ Handled.op = "message"
    /\ Len(page.messages) = 2
    /\ page.messages[1].content = FailedToDecrypt
    /\ page.messages[1].from = PeerId
    /\ page.messages[2].content = <<97, 233>>
    /\ ~page.messages[2].isOwn

\* An emitted send-message opens, at the peer, to the content sent.
OpensAtPeer(e, content) ==
    LET opened == decrypt(crypto[Other(Tab)], e.encrypted, e.nonce,
                          PublicKeyOf(crypto[Tab]))
    IN ~opened.threw /\ opened.value = content

\* C17: encrypt throws and returns no envelope when nacl.box.after reports
\* failure, the page then emits no send-message for that recipient, and no
\* send-message ever carries the content itself: what is emitted is a box
\* only the peer's key opens.
C17_EncryptFailsClosed ==
    /\ \A m \in Plaintexts, k \in PeerKeys, n \in Nonces :
          LET r == encrypt(crypto[Tab], m, k, n, FALSE)
          IN r.threw /\ Len(r.value) = 0
    /\ Handled.op = "send" =>
          /\ ~Handled.boxed => page.emitted = <<>>
          /\ Len(page.emitted) + Handled.failed = Len(page.users)
          /\ \A i \in 1..Len(page.emitted) :
                /\ page.emitted[i].encrypted # Handled.content
                /\ page.emitted[i].encrypted
                      # encodeBase64(decodeUTF8(Handled.content))
                /\ OpensAtPeer(page.emitted[i], Handled.content)

\* The primitive failed for both recipients of a send and nothing was
\* emitted.
C17_Witness ==
    /\ Handled.op = "send"
    /\ ~Handled.boxed
    /\ Len(page.users) = 2
    /\ Handled.failed = 2
    /\ page.emitted = <<>>

\* C18 as written: a send whose encryption fails is aborted: nothing is
\* transmitted and the feed does not gain the message as a sent one.
C18_FailedSendNotRecorded ==
    (Handled.op = "send" /\ Handled.failed > 0) =>
       /\ page.emitted = <<>>
       /\ Len(page.messages) = Handled.shown

\* C21 as written: clearKeys discards the cached keys and the key pair, so
\* right after it every encrypt, decrypt and generateSafetyNumber on that
\* instance throws.
C21_ClearedSessionUnusable ==
    call.op = "clearKeys" =>
       LET c == crypto[call.session]
       IN /\ Len(c.sharedKeys) = 0
          /\ \A m \in Plaintexts, k \in SessionKeys, n \in Nonces :
                /\ encrypt(c, m, k, n, TRUE).threw
                /\ LET sealed == SealedFor(Other(call.session), call.session,
                                           m, n)
                   IN decrypt(c, sealed.value.encrypted, sealed.value.nonce,
                              k).threw
                /\ generateSafetyNumber(c, k).threw

Settled == promise.state \in {"fulfilled", "rejected"}

\* The promise is settled at most once; fulfilled only by a room-joined
\* handled before the timer fired, with the userId and users it carried;
\* rejected only by the timer, with the join timeout; and once the timer has
\* fired it is settled one way or the other.
SettledOnce ==
    /\ promise.settled <= 1
    /\ Settled <=> promise.settled = 1
    /\ promise.state = "fulfilled" =>
          /\ ~promise.late
          /\ ~JoinRejected(promise.request[1], promise.request[2])
          /\ promise.value[1] \in MemberIds
          /\ promise.value[2] \in RoomJoinedLists
    /\ promise.state = "rejected" =>
          /\ promise.value = JoinTimeoutError
          /\ promise.timer = "fired"
    /\ promise.timer = "fired" => Settled

\* A settled promise keeps its state and value; a room-joined handled while
\* the promise is pending fulfils it with what it carries.
SettledStays ==
    /\ Settled => /\ promise'.state = promise.state
                  /\ promise'.value = promise.value
    /\ (promise.state = "pending" /\ Len(net) > 0 /\ net' = Tail(net)
          /\ net[1].ev = "room-joined")
         => /\ promise'.state = "fulfilled"
            /\ promise'.value = <<net[1].userId, net[1].users>>

\* C22: the promise of joinRoom always settles and settles once: fulfilled
\* with the userId and users of a room-joined that arrives before the timer
\* fires, rejected with the join timeout otherwise (an error answer or none
\* at all included); a room-joined that arrives after the timeout leaves it
\* rejected.
C22_JoinSettlesOnce ==
    /\ []SettledOnce
    /\ [][SettledStays]_vars
    /\ (promise.state = "pending" ~> Settled)

\* room-joined arrived after the timer had fired and the promise is still
\* rejected.
C22_Witness ==
    /\ promise.state = "rejected"
    /\ promise.late
    /\ ~promise.listener
    /\ promise.settled = 1

\* The room an emitted event belongs to: user-left belongs to the room the
\* connection was in, everything else of a join to the room it joins.
RoomOfEvent(e) ==
    IF last.op = "join-room" /\ e.ev # "user-left" THEN last.roomId
    ELSE last.was

Answers == {"error", "room-joined"}

\* C23 as written: whatever a handler emits on behalf of a member of room R,
\* beyond its answer to the requester, reaches members of R only, for every
\* roomId, one equal to a socket id included.
C23_NoDeliveryOutsideRoom ==
    \A i \in 1..Len(out) :
       out[i].ev \notin Answers =>
          /\ RoomOfEvent(out[i]) # Null
          /\ out[i].to \subseteq Members(RoomOfEvent(out[i]))

\* The connection is open and the room is its current room.
InRoomNow(s, r) == connected[s] = "open" /\ currentRoomId[s] = r

\* C24: under every interleaving of joins, leaves and disconnects the users
\* list of a room-joined response is a snapshot of the room at the moment
\* the joiner is registered: every other member appears in it with the
\* memberId and publicKey stored for it, and every entry belongs to a
\* connection that is still in the room.
C24_JoinSnapshotConsistent ==
    JoinAccepted =>
      LET users == rooms[last.roomId].users
          list == Joined.data.users
      IN /\ \A s \in Members(last.roomId) \ {last.sid} :
               \E i \in 1..Len(list) :
                  /\ users[i].sid = s
                  /\ list[i].id = users[i].id
                  /\ list[i].publicKey = users[i].publicKey
         /\ \A i \in 1..Len(list) :
               /\ i <= Len(users)
               /\ InRoomNow(users[i].sid, last.roomId)
               /\ list[i].id = users[i].id
               /\ list[i].publicKey = users[i].publicKey

\* A join into a room that one member has left by disconnecting and another
\* member is still in.
C24_Witness ==
    /\ JoinAccepted
    /\ Len(Joined.data.users) >= 2
    /\ \E s \in SocketIds :
          connected[s] = "closed" /\ currentRoomId[s] = last.roomId

\* An accepted join by a connection that was a member of a room.
Switching == JoinAccepted /\ last.was # Null

\* The events of a switching join, in the order they were emitted: the
\* user-left of the old room, the answer, the user-joined of the new room.
TeardownFirst ==
    /\ Len(out) = 3
    /\ out[1].ev = "user-left"
    /\ out[2].ev = "room-joined"
    /\ out[3].ev = "user-joined"

\* The old room no longer holds the connection and is gone if it was left
\* empty.
OldRoomTornDown ==
    last.was # last.roomId =>
       /\ last.sid \notin Members(last.was)
       /\ (Members(last.was) = {}) = ~RoomsHas(rooms, last.was)

\* A sole member that joins its own room again finds it created anew.
SoleRejoinRecreates ==
    (last.was = last.roomId /\ Members(last.roomId) = {last.sid}) =>
       /\ rooms[last.roomId].createdAt = now
       /\ Len(rooms[last.roomId].users) = 1
       /\ rooms[last.roomId].users[1].id = last.userId
       /\ Joined.data.id = last.userId

\* C25 as written: a join by a member of R1 first tears the R1 membership
\* down, user-left reaching the remaining members of R1, and only then
\* enters R2; a sole member joining its own room again gets a room created
\* at the time of the join and the id minted by the join.
C25_TeardownBeforeJoin ==
    Switching =>
       /\ TeardownFirst
       /\ out[1].to = Members(last.was) \ {last.sid}
       /\ OldRoomTornDown
       /\ SoleRejoinRecreates

RoutingOps == {"send-message", "typing", "call-start", "call-signal",
               "call-end"}

\* C26: a step of send-message, typing, call-start, call-signal or call-end
\* leaves the room table (the rooms, their member maps and creation times)
\* and every connection's current room as they were, whether or not the
\* step delivers anything.
C26_RoutingKeepsRegistry ==
    [][last'.op \in RoutingOps =>
          /\ rooms' = rooms
          /\ currentRoomId' = currentRoomId]_vars

\* A call-end that was delivered to another member of the caller's room.
C26_Witness ==
    /\ last.op = "call-end"
    /\ Len(out) = 1
    /\ out[1].to # {}
    /\ out[1].to \subseteq Members(last.was)

NameOf(r, s) == UsersGet(rooms[r].users, s).userName

DefaultNames == {DefaultName(n) : n \in 1..NumSockets}

\* An accepted join that supplied no userName.
UnnamedJoin == JoinAccepted /\ last.userName = Null

\* The name announced in user-joined is the default name stored for the
\* joiner.
AnnouncedNameIsStored ==
    UnnamedJoin =>
       /\ NameOf(last.roomId, last.sid) \in DefaultNames
       /\ Notified.ev = "user-joined"
       /\ Notified.data.userName = NameOf(last.roomId, last.sid)

\* Every entry of a join snapshot carries the name stored for its member.
SnapshotNamesAreStored ==
    JoinAccepted =>
       \A i \in 1..Len(Joined.data.users) :
          Joined.data.users[i].userName =
              rooms[last.roomId].users[i].userName

\* message, typing and call-incoming carry the name stored for the sender.
RoutedNameIsStored ==
    \A i \in 1..Len(out) :
       out[i].ev \in {"message", "typing", "call-incoming"} =>
          /\ last.sid \in Members(last.was)
          /\ out[i].data.userName = NameOf(last.was, last.sid)

\* The stored name of a member is written by its own accepted join and by
\* no other step.
StoredNameWrittenByJoin ==
    \A r \in RoomIds, s \in SocketIds :
       (s \in Members(r)'
           /\ ~(last'.op = "join-room" /\ ~Missing(last') /\ last'.sid = s
                  /\ last'.roomId = r))
          => s \in Members(r) /\ NameOf(r, s)' = NameOf(r, s)

\* C27: the default name the server stores for a join without userName is
\* the name announced in user-joined, the name later join snapshots return
\* for that member, and the name its later message, typing and
\* call-incoming events carry.
C27_DefaultNameConsistent ==
    /\ [](AnnouncedNameIsStored /\ SnapshotNamesAreStored
            /\ RoutedNameIsStored)
    /\ [][StoredNameWrittenByJoin]_vars

\* A member stored under a default name has typed, and another member was
\* told so.
C27_Witness ==
    /\ last.op = "typing"
    /\ Len(out) = 1
    /\ out[1].to # {}
    /\ out[1].data.userName \in DefaultNames

\* The listener takes the next relayed event, one a member the page was
\* told of sealed for this page.
ListensToMember ==
    /\ Len(net) > 0
    /\ net' = Tail(net)
    /\ net[1].sealedFor = PublicKeyOf(crypto[Tab])
    /\ FindUser(page.users, net[1].from, 1) # 0

\* C28 as written: a message from any current member, one announced by a
\* later user-joined included, is decrypted and added to the feed.
C28_MemberMessageShown ==
    [][ListensToMember =>
          /\ Len(page'.messages) = Len(page.messages) + 1
          /\ page'.messages[Len(page'.messages)].from = net[1].from
          /\ page'.messages[Len(page'.messages)].content = net[1].content]_vars

\* The feed entries that carry the id of the message handled last.
EntriesOfHandled ==
    SelectSeq(page.messages, LAMBDA e : e.id = Handled.messageId)

\* Every relayed event of the peer's message has been handled, and the peer
\* is in the room-joined list of the page.
MessageDelivered ==
    /\ Handled.op = "relayed"
    /\ net = <<>>
    /\ FindUser(page.roomUsers, Handled.from, 1) # 0

\* C29 as written: for one message the reference client sends in a room
\* with N >= 1 other members, the page of another member adds exactly one
\* feed entry for it, with the original plaintext, and no failure marker.
C29_OneEntryPerMessage ==
    MessageDelivered =>
       /\ Len(EntriesOfHandled) = 1
       /\ EntriesOfHandled[1].from = Handled.from
       /\ EntriesOfHandled[1].content = Handled.content

\* The room table has a room with that id whose member map holds s.
MemberOfRoom(s, r) ==
    r \in RoomIds /\ RoomsHas(rooms, r) /\ s \in Members(r)

\* C30: after every handler, for every connection that has not
\* disconnected, currentRoomId is set exactly if the room table has a room
\* with that id whose member map holds the connection; so a send-message,
\* typing or call handler that got past its currentRoomId check found the
\* room and its own record in it.
C30_CurrentRoomIffMember ==
    /\ \A s \in SocketIds :
          connected[s] = "open" =>
             (currentRoomId[s] # Null) = MemberOfRoom(s, currentRoomId[s])
    /\ (last.op \in RoutingOps /\ last.was # Null) =>
          MemberOfRoom(last.sid, last.was)

\* A typing handler got past its currentRoomId check after the clock has
\* moved, while another open connection is in no room.
C30_Witness ==
    /\ last.op = "typing"
    /\ last.was # Null
    /\ now > 0
    /\ \E s \in SocketIds : connected[s] = "open" /\ currentRoomId[s] = Null
====
